---- MODULE Spec2Model ----
(***************************************************************************)
(* Model of docs/hooks.py: the mkdocs pre-build hook on_pre_build, which   *)
(* opens ./snippets/usage.txt for writing and runs `treefmt --help` with   *)
(* its standard output redirected into that file.                          *)
(*                                                                         *)
(*   def on_pre_build(kwargs):                                             *)
(*       with Path("./snippets/usage.txt").open("w") as f:                 *)
(*           subprocess.run(["treefmt", "--help"], stdout=f, check=True)   *)
(*                                                                         *)
(* The file system, the executable search path and the child process are   *)
(* the environment: their answers are inputs, drawn from small sets.       *)
(***************************************************************************)
EXTENDS Integers, Sequences, FiniteSets, TLC

\* ------------------------------------------------------------------ bounds
\* Longest standard output a child produces.
MaxOut == 2

\* Number of invocations of the hook in one behaviour.
MaxRuns == 3

\* --------------------------------------------------------------- constants
\* Hook invocations that may be in progress (two host processes at most).
Procs == {1, 2}

\* Byte values a child writes; FillByte is what the file system puts in a hole.
Bytes == {1, 2}

FillByte == 0

\* Path("./snippets/usage.txt"), and some other path the hook never names.
UsagePath == "snippets/usage.txt"

OtherPath == "other"

Paths == {UsagePath, OtherPath}

\* Outcomes of open(path, O_WRONLY|O_CREAT|O_TRUNC).
OpenResults == {"ok", "ENOENT", "EACCES"}

\* What the search path holds for "treefmt": an executable, nothing, or a
\* file that cannot be executed.
ToolStates == {"ok", "missing", "noexec"}

\* Exit statuses of the child (0 is success).
ExitStatuses == {0, 1, 2}

\* A file: absent, or present with a byte sequence.
AbsentFile == [exists |-> FALSE, data |-> <<>>]

File(d) == [exists |-> TRUE, data |-> d]

\* Contents usage.txt may have before the first invocation.
InitialData == {<<>>, <<1>>, <<2, 1, 2>>}

VARIABLES
    fs,         \* the file system: path -> file
    inv,        \* per invocation: the hook's and its child's state
    runs,       \* invocations started so far
    lastOpener, \* the invocation whose open("w") succeeded most recently
    overlay,    \* a child wrote after another invocation truncated the file
    lastOk      \* the latest successful return: child output, file data

vars == <<fs, inv, runs, lastOpener, overlay, lastOk>>

\* ------------------------------------------------------------ pure helpers
\* Path.open("w"): O_CREAT | O_TRUNC, whatever the file held before.
OpenW_NoTruncate(file) == IF file.exists THEN file ELSE File(<<>>)

OpenW(file) == File(<<>>)

\* An open() that raises leaves the file system as it was.
FailedOpen_Creates(file) == File(<<>>)

FailedOpen(file) == file

Max(a, b) == IF a >= b THEN a ELSE b

\* A write of one byte through a descriptor opened without O_APPEND lands at
\* the descriptor's own offset; a gap below the offset reads as FillByte.
WriteAt_Append(data, off, b) == Append(data, b)

WriteAt(data, off, b) ==
    [i \in 1..Max(Len(data), off + 1) |->
        IF i = off + 1 THEN b
        ELSE IF i <= Len(data) THEN data[i]
        ELSE FillByte]

\* __exit__ of the with-statement closes f on every way out of the block.
WithExit_Leak(h) == h

WithExit(h) == "closed"

\* subprocess.run waits (communicate) until the child has exited.
ChildDone_NoWait(p) == inv[p].child \in {"running", "exited"}

ChildDone(p) == inv[p].child = "exited"

\* check=True: a nonzero return code raises CalledProcessError.
CheckFails_Unchecked(s) == FALSE

CheckFails(s) == s # 0

\* on_pre_build has no try/except and no loop: an exception raised at any
\* step leaves the function.
Propagate_Retry(step) == IF step = "Popen" THEN "opened" ELSE "raised"

Propagate(step) == "raised"

\* The exception open() raises for an errno.
OpenError(r) == IF r = "ENOENT" THEN "FileNotFoundError" ELSE "PermissionError"

\* The exception Popen raises when the executable cannot be started.
SpawnError(t) == IF t = "missing" THEN "FileNotFoundError" ELSE "PermissionError"

\* No successful return yet.
NoRun == [some |-> FALSE, out |-> <<>>, data |-> <<>>]

\* The state of an invocation that has not started.  before is the file
\* system a failed open found, prevOk the successful return that preceded a
\* successful open.
Fresh ==
    [pc |-> "idle", handle |-> "none", offset |-> 0, child |-> "none",
     status |-> <<>>, exc |-> "None", raisedAt |-> "none",
     attempts |-> 0, children |-> 0, touched |-> {}, out |-> <<>>,
     tool |-> "ok", before |-> [q \in Paths |-> AbsentFile],
     prevOk |-> NoRun]

Terminal(p) == inv[p].pc \in {"returned", "raised"}

\* A single host is invocation 1 over and over: it calls the hook again only
\* after the previous call came back.  Two hosts call the hook once each.
CanStart(p, overlap) ==
    IF overlap
    THEN inv[p].pc = "idle"
    ELSE /\ p = 1
         /\ inv[p].pc \in {"idle", "returned", "raised"}
         /\ runs < MaxRuns

\* ------------------------------------------------------------------- Init
Init ==
    /\ fs \in {f \in [Paths -> {AbsentFile} \cup {File(d) : d \in InitialData}] :
                  f[OtherPath] = File(<<>>)}
    /\ inv = [p \in Procs |-> Fresh]
    /\ runs = 0
    /\ lastOpener = 0
    /\ overlay = FALSE
    /\ lastOk = NoRun

\* ---------------------------------------------------------------- actions
\* Line 5, open succeeds: the file is created or truncated, f is open.
OpenOk(p, overlap) ==
    /\ CanStart(p, overlap)
    /\ \E t \in ToolStates :
        inv' = [inv EXCEPT ![p] =
                    [Fresh EXCEPT !.pc = "opened", !.handle = "open",
                                  !.offset = 0, !.tool = t,
                                  !.touched = {UsagePath},
                                  !.prevOk = lastOk]]
    /\ fs' = [fs EXCEPT ![UsagePath] = OpenW(@)]
    /\ runs' = runs + 1
    /\ lastOpener' = p
    /\ overlay' = FALSE
    /\ UNCHANGED lastOk

\* Line 5, open raises: missing directory (then there is no file either) or
\* permission denied.  Nothing else of the hook runs.
OpenFail(p, overlap) ==
    /\ CanStart(p, overlap)
    /\ \E r \in OpenResults \ {"ok"}, t \in ToolStates :
        /\ r = "ENOENT" => ~fs[UsagePath].exists
        /\ inv' = [inv EXCEPT ![p] =
                    [Fresh EXCEPT !.pc = Propagate("open"),
                                  !.exc = OpenError(r),
                                  !.raisedAt = "open", !.tool = t,
                                  !.before = fs]]
    /\ fs' = [fs EXCEPT ![UsagePath] = FailedOpen(@)]
    /\ runs' = runs + 1
    /\ UNCHANGED <<lastOpener, overlay, lastOk>>

\* Lines 6-10, Popen starts the child with f's descriptor as its stdout.
SpawnOk(p) ==
    /\ inv[p].pc = "opened"
    /\ inv[p].tool = "ok"
    /\ inv' = [inv EXCEPT ![p].pc = "waiting", ![p].child = "running",
                          ![p].attempts = @ + 1, ![p].children = @ + 1]
    /\ UNCHANGED <<fs, runs, lastOpener, overlay, lastOk>>

\* Lines 6-10, Popen raises (not found, or not executable); the exception
\* leaves the with-block, which closes f.
SpawnFail(p) ==
    /\ inv[p].pc = "opened"
    /\ inv[p].tool # "ok"
    /\ inv' = [inv EXCEPT ![p].pc = Propagate("Popen"),
                          ![p].attempts = @ + 1,
                          ![p].exc = SpawnError(inv[p].tool),
                          ![p].raisedAt = "Popen",
                          ![p].handle = WithExit(@)]
    /\ UNCHANGED <<fs, runs, lastOpener, overlay, lastOk>>

\* The child writes one more byte to its standard output (stdout=f, line 8).
ChildWrite(p) ==
    /\ inv[p].child = "running"
    /\ Len(inv[p].out) < MaxOut
    /\ \E b \in Bytes :
        /\ fs' = [fs EXCEPT ![UsagePath] =
                    File(WriteAt(@.data, inv[p].offset, b))]
        /\ inv' = [inv EXCEPT ![p].out = Append(@, b),
                              ![p].offset = @ + 1]
    /\ overlay' = (overlay \/ lastOpener # p)
    /\ UNCHANGED <<runs, lastOpener, lastOk>>

\* The child exits with some status.
ChildExit(p) ==
    /\ inv[p].child = "running"
    /\ \E s \in ExitStatuses :
        inv' = [inv EXCEPT ![p].child = "exited", ![p].status = <<s>>]
    /\ UNCHANGED <<fs, runs, lastOpener, overlay, lastOk>>

\* run() has waited for the child and check=True finds nothing to raise (the
\* status is 0, or there is none): the with-block ends, f is closed, the hook
\* returns None.
WaitReturn(p) ==
    /\ inv[p].pc = "waiting"
    /\ ChildDone(p)
    /\ inv[p].status = <<>> \/ ~CheckFails(inv[p].status[1])
    /\ inv' = [inv EXCEPT ![p].pc = "returned", ![p].handle = WithExit(@)]
    /\ lastOk' = [some |-> TRUE, out |-> inv[p].out,
                   data |-> fs[UsagePath].data]
    /\ UNCHANGED <<fs, runs, lastOpener, overlay>>

\* run() has waited for the child, the status is not 0: check=True raises
\* CalledProcessError through the with-block, which closes f.
WaitRaise(p) ==
    /\ inv[p].pc = "waiting"
    /\ ChildDone(p)
    /\ inv[p].status # <<>>
    /\ CheckFails(inv[p].status[1])
    /\ inv' = [inv EXCEPT ![p].pc = Propagate("check"),
                          ![p].exc = "CalledProcessError",
                          ![p].raisedAt = "check",
                          ![p].handle = WithExit(@)]
    /\ UNCHANGED <<fs, runs, lastOpener, overlay, lastOk>>

\* One step of invocation p; overlap says whether the host may call the hook
\* while another call is in progress.
Step(p, overlap) ==
    \/ OpenOk(p, overlap)
    \/ OpenFail(p, overlap)
    \/ SpawnOk(p)
    \/ SpawnFail(p)
    \/ ChildWrite(p)
    \/ ChildExit(p)
    \/ WaitReturn(p)
    \/ WaitRaise(p)

\* The hook's own steps once it holds the file: they are taken by the
\* interpreter without waiting for anything but the child.
HookStep(p) == SpawnOk(p) \/ SpawnFail(p) \/ WaitReturn(p) \/ WaitRaise(p)

\* One host: calls follow one another.
Next == \E p \in Procs : Step(p, FALSE)

Spec == Init /\ [][Next]_vars

\* Two hosts on the same working directory: calls may overlap.
NextConc == \E p \in Procs : Step(p, TRUE)

SpecConc == Init /\ [][NextConc]_vars

\* One host, and the interpreter keeps running the hook; nothing is assumed
\* about the child.
LiveSpec == Spec /\ \A p \in Procs : WF_vars(HookStep(p))

\* ------------------------------------------------------------- properties
\* The bytes of usage.txt (empty when the file is absent).
Usage == fs[UsagePath]

\* C1: when the file opened and the child exited with status 0, the file
\* holds, at the hook's return, exactly the bytes the child wrote to its
\* standard output, whatever it held before.
C1_Verbatim ==
    \A p \in Procs :
        inv[p].pc = "returned" => Usage = File(inv[p].out)

C1_Witness ==
    \E p \in Procs :
        /\ inv[p].pc = "returned"
        /\ inv[p].status = <<0>>
        /\ inv[p].out = <<1, 2>>

\* C2: after a successful run the file holds the output of that run's child
\* only, also when it is shorter than the output of the successful run before
\* it; and when the output is the same as in that earlier run, so is the file.
C2_NoAccumulation ==
    \A p \in Procs :
        (inv[p].pc = "returned" /\ inv[p].prevOk.some) =>
            /\ Len(Usage.data) = Len(inv[p].out)
            /\ \A i \in 1..Len(Usage.data) : Usage.data[i] = inv[p].out[i]
            /\ inv[p].out = inv[p].prevOk.out =>
                    Usage.data = inv[p].prevOk.data

C2_Witness ==
    \E p \in Procs :
        /\ inv[p].pc = "returned"
        /\ inv[p].prevOk.some
        /\ Len(inv[p].out) < Len(inv[p].prevOk.out)

\* C3: a child that exited with a nonzero status makes the hook raise
\* CalledProcessError, never return; the bytes the child wrote are still in
\* the file after the raise.
C3_NonzeroExit ==
    \A p \in Procs :
        (inv[p].child = "exited" /\ inv[p].status # <<0>>) =>
            /\ inv[p].pc # "returned"
            /\ Terminal(p) =>
                /\ inv[p].exc = "CalledProcessError"
                /\ inv[p].raisedAt = "check"
                /\ Usage = File(inv[p].out)

C3_Witness ==
    \E p \in Procs :
        /\ inv[p].pc = "raised"
        /\ inv[p].raisedAt = "check"
        /\ inv[p].out # <<>>

\* C4 as stated: after a run that failed with the executable missing from
\* the search path, the file is absent or empty.
C4_Original ==
    \A p \in Procs :
        (Terminal(p) /\ inv[p].tool = "missing") =>
            (~Usage.exists \/ Usage.data = <<>>)

\* C4, amended: when the file opened and the executable is missing from the
\* search path, the hook raises the lookup error from the launch, no child
\* exists, and the file is present and empty.
C4_LookupFailure ==
    \A p \in Procs :
        (Terminal(p) /\ inv[p].tool = "missing" /\ inv[p].raisedAt # "open") =>
            /\ inv[p].pc = "raised"
            /\ inv[p].raisedAt = "Popen"
            /\ inv[p].exc = "FileNotFoundError"
            /\ inv[p].children = 0
            /\ Usage = File(<<>>)

C4_Witness ==
    \E p \in Procs :
        /\ inv[p].pc = "raised"
        /\ inv[p].raisedAt = "Popen"
        /\ inv[p].tool = "missing"
        /\ inv[p].prevOk.some
        /\ inv[p].prevOk.data # <<>>

\* C5: when the open fails, the hook raises the file system's error, no
\* launch is attempted and no file is created or changed.
C5_OpenFailure ==
    \A p \in Procs :
        inv[p].raisedAt = "open" =>
            /\ inv[p].pc = "raised"
            /\ inv[p].exc \in {"FileNotFoundError", "PermissionError"}
            /\ inv[p].attempts = 0
            /\ inv[p].children = 0
            /\ inv[p].child = "none"
            /\ inv[p].touched = {}
            /\ fs = inv[p].before

C5_Witness ==
    \E p \in Procs :
        /\ inv[p].raisedAt = "open"
        /\ inv[p].exc = "PermissionError"
        /\ Usage.exists
        /\ Usage.data # <<>>

\* C6 as stated: every finished invocation has spawned exactly one child and
\* touched exactly one file.
C6_Original ==
    \A p \in Procs :
        Terminal(p) => (inv[p].children = 1 /\ Cardinality(inv[p].touched) = 1)

\* C6, amended: an invocation attempts at most one launch and touches no file
\* but usage.txt; a finished one has attempted exactly one launch and touched
\* usage.txt when the open succeeded, and neither when it failed; it has had
\* a child exactly when the launch did not raise.
C6_AtMostOnce ==
    \A p \in Procs :
        /\ inv[p].attempts <= 1
        /\ inv[p].children <= inv[p].attempts
        /\ inv[p].touched \subseteq {UsagePath}
        /\ fs[OtherPath] = File(<<>>)
        /\ Terminal(p) =>
            /\ inv[p].raisedAt = "open" =>
                    (inv[p].attempts = 0 /\ inv[p].touched = {})
            /\ inv[p].raisedAt # "open" =>
                    (inv[p].attempts = 1 /\ inv[p].touched = {UsagePath})
            /\ inv[p].children = 1 <=> inv[p].raisedAt \notin {"open", "Popen"}

C6_Witness ==
    \E p \in Procs :
        /\ inv[p].pc = "raised"
        /\ inv[p].raisedAt = "Popen"
        /\ inv[p].attempts = 1
        /\ inv[p].children = 0

\* C7: a child exists only after the file was opened, it runs only while the
\* hook waits inside the with-block, and a hook that has returned or raised
\* has no running child.
C7_Ordering ==
    \A p \in Procs :
        /\ inv[p].child # "none" => inv[p].handle # "none"
        /\ inv[p].child = "running" => inv[p].pc = "waiting"
        /\ Terminal(p) => inv[p].child # "running"

C7_Witness ==
    \E p \in Procs :
        /\ Terminal(p)
        /\ inv[p].child = "exited"
        /\ inv[p].out # <<>>

\* C8 as stated: once two overlapping invocations have both returned, the
\* file holds exactly the output of one of the two children.
C8_Original ==
    (\A p \in Procs : inv[p].pc = "returned") =>
        \E p \in Procs : Usage.data = inv[p].out

\* C8, amended: once both have returned, every byte of the file is the byte
\* one of the children wrote at that position or the fill byte of a hole, the
\* file is no longer than the longer output, and it holds exactly the output
\* of the child of the invocation that opened last when the other child
\* wrote nothing after that open.
C8_PositionwiseMix ==
    (\A p \in Procs : inv[p].pc = "returned") =>
        /\ \E p \in Procs : Len(Usage.data) <= Len(inv[p].out)
        /\ \A i \in 1..Len(Usage.data) :
                \/ Usage.data[i] = FillByte
                \/ \E p \in Procs :
                        /\ i <= Len(inv[p].out)
                        /\ Usage.data[i] = inv[p].out[i]
        /\ ~overlay => Usage.data = inv[lastOpener].out

C8_Witness ==
    /\ \A p \in Procs : inv[p].pc = "returned"
    /\ overlay
    /\ \A p \in Procs : Usage.data # inv[p].out

\* C9: a hook that has returned or raised holds no open handle: the handle
\* is closed when the open succeeded, and there never was one when it failed.
C9_HandleReleased ==
    \A p \in Procs :
        /\ Terminal(p) =>
                inv[p].handle = (IF inv[p].raisedAt = "open" THEN "none"
                                 ELSE "closed")
        /\ inv[p].raisedAt = "open" => inv[p].handle = "none"

C9_Witness ==
    \E p \in Procs :
        /\ inv[p].pc = "raised"
        /\ inv[p].raisedAt = "check"
        /\ inv[p].handle = "closed"

\* C10: once the child has exited the hook returns or raises; as long as the
\* child keeps running the hook stays blocked with the handle open.
C10_NoTimeout ==
    /\ \A p \in Procs : (inv[p].child = "exited") ~> Terminal(p)
    /\ [][\A p \in Procs :
            (inv[p].child = "running" /\ inv'[p].child = "running") =>
                (inv'[p].pc = "waiting" /\ inv'[p].handle = "open")]_vars

C10_Witness ==
    \E p \in Procs :
        /\ inv[p].child = "running"
        /\ inv[p].pc = "waiting"
        /\ inv[p].handle = "open"
        /\ Len(inv[p].out) = 1

====
